---- MODULE Spec2Model ----
(***************************************************************************)
(* Handoff / dispatch engine of the airline customer-service backend       *)
(* (python-backend/main.py): the Session Context, the tools, the handoff   *)
(* hooks, the input guardrails, the routing graph of the five agents and   *)
(* the /chat endpoint.  The loop that drives one turn (gate, model call,   *)
(* tool, handoff) lives in the `agents` library and is modelled from the   *)
(* design document, section 4.4.                                           *)
(*                                                                         *)
(* Python values: a str is a TLA+ string (f-strings are \o), an            *)
(* Optional[str] is a sequence of length 0 (None) or 1 (the value).        *)
(***************************************************************************)
EXTENDS Integers, Sequences, FiniteSets, TLC

VARIABLES
    activeHandler,  \* the agent the Dispatch Loop is running
    ctx,            \* the AirlineAgentContext of the session
    pc,             \* state of the Dispatch Loop for the current turn
    msg,            \* what the guardrail models say about the latest user turn
    checkers,       \* status of each input guardrail task of the turn
    gate,           \* result of the validation gate of the turn
    pending,        \* the tool call or handoff target being executed
    rendered,       \* instructions last rendered for the model
    output,         \* text returned by the last tool
    error,          \* error class that ended the turn, if any
    turnHandler,    \* activeHandler when the turn started
    turnCtx,        \* ctx when the turn started
    preCtx,         \* ctx before the last tool or hook ran
    turns,          \* user turns so far
    steps,          \* model invocations in the current turn
    toolRuns,       \* tool bodies run in the current turn
    hookRuns,       \* hooks run in the current turn
    hookCount,      \* per edge: executions of its hook
    traversals,     \* per edge: traversals
    servedBy        \* the agent that answered the last /chat request

vars == <<activeHandler, ctx, pc, msg, checkers, gate, pending, rendered, output,
          error, turnHandler, turnCtx, preCtx, turns, steps, toolRuns, hookRuns,
          hookCount, traversals, servedBy>>

(***************************************************************************)
(* Bounds of the model                                                     *)
(***************************************************************************)
MaxTurns == 2
MaxSteps == 3

(***************************************************************************)
(* Python values                                                           *)
(***************************************************************************)
None == <<>>
Some(v) == <<v>>

Digit(d) ==
    CASE d = 0 -> "0" [] d = 1 -> "1" [] d = 2 -> "2" [] d = 3 -> "3" [] d = 4 -> "4"
      [] d = 5 -> "5" [] d = 6 -> "6" [] d = 7 -> "7" [] d = 8 -> "8" [] d = 9 -> "9"

RECURSIVE Str(_)
Str(n) == IF n < 10 THEN Digit(n) ELSE Str(n \div 10) \o Digit(n % 10)

\* x or "[unknown]": None and the empty string are both falsy
OrUnknown(o) == IF o = None \/ o = Some("") THEN "[unknown]" ELSE o[1]

(***************************************************************************)
(* CONTEXT                                                                 *)
(***************************************************************************)
AccountLow == 10000000
AccountHigh == 99999999
FlightLow == 100
FlightHigh == 999

\* random.randint(a, b) is inclusive at both ends; the model draws the two ends
RandInt(a, b) == {a, b}

\* "".join(random.choices(string.ascii_uppercase + string.digits, k=6))
RandomCode == {"AAAAAA", "Z9Z9Z9"}

AirlineAgentContext ==
    [passenger_name |-> None, confirmation_number |-> None, seat_number |-> None,
     flight_number |-> None, account_number |-> None]

\* variant: the lower end of the range has seven digits
create_initial_context_SevenDigits ==
    {[AirlineAgentContext EXCEPT !.account_number = Some(Str(n))] :
        n \in RandInt(AccountLow \div 10, AccountHigh)}

create_initial_context ==
    {[AirlineAgentContext EXCEPT !.account_number = Some(Str(n))] :
        n \in RandInt(AccountLow, AccountHigh)}

\* values the model may supply as tool arguments
ConfirmationArgs == {"", "ABC123"}
SeatArgs == {"1A", "23C"}
FlightArgs == {"FLT-100"}

(***************************************************************************)
(* TOOLS: each returns the context it leaves behind, whether it raised,    *)
(* and its text                                                            *)
(***************************************************************************)
Returned(c, text) == [ctx |-> c, raised |-> FALSE, out |-> text]
Raised(c, text) == [ctx |-> c, raised |-> TRUE, out |-> text]

\* questions are sequences of characters so that lower() and `in` are computed
Lower(ch) ==
    CASE ch = "W" -> "w" [] ch = "I" -> "i" [] ch = "F" -> "f" [] ch = "B" -> "b"
      [] ch = "A" -> "a" [] ch = "G" -> "g" [] ch = "P" -> "p" [] ch = "L" -> "l"
      [] ch = "N" -> "n" [] ch = "E" -> "e" [] ch = "S" -> "s" [] ch = "T" -> "t"
      [] OTHER -> ch

lower(q) == [i \in 1..Len(q) |-> Lower(q[i])]

\* sub in q
In(sub, q) ==
    \E i \in 0..(Len(q) - Len(sub)) : \A j \in 1..Len(sub) : q[i + j] = sub[j]

Questions ==
    {<<"w", "i", "f", "i", "?">>, <<"W", "i", "F", "i">>,
     <<"p", "l", "a", "n", "e", " ", "w", "i", "f", "i">>,
     <<"b", "a", "g">>, <<"s", "e", "a", "t", "s">>, <<"h", "i">>,
     <<"W", "h", "a", "t", "'", "s", " ", "y", "o", "u", "r", " ",
       "w", "i", "f", "i", " ", "p", "o", "l", "i", "c", "y", "?">>}

\* variant: "wifi" is looked for in the question as typed, not in q
faq_lookup_tool_CaseSensitiveWifi(c, question) ==
    LET q == lower(question) IN
    IF In(<<"b", "a", "g">>, q) \/ In(<<"b", "a", "g", "g", "a", "g", "e">>, q)
    THEN Returned(c, "You are allowed to bring one bag on the plane. "
                     \o "It must be under 50 pounds and 22 inches x 14 inches x 9 inches.")
    ELSE IF In(<<"s", "e", "a", "t", "s">>, q) \/ In(<<"p", "l", "a", "n", "e">>, q)
    THEN Returned(c, "There are 120 seats on the plane. "
                     \o "There are 22 business class seats and 98 economy seats. "
                     \o "Exit rows are rows 4 and 16. "
                     \o "Rows 5-8 are Economy Plus, with extra legroom.")
    ELSE IF In(<<"w", "i", "f", "i">>, question)
    THEN Returned(c, "We have free wifi on the plane, join Airline-Wifi")
    ELSE Returned(c, "I'm sorry, I don't know the answer to that question.")

faq_lookup_tool(c, question) ==
    LET q == lower(question) IN
    IF In(<<"b", "a", "g">>, q) \/ In(<<"b", "a", "g", "g", "a", "g", "e">>, q)
    THEN Returned(c, "You are allowed to bring one bag on the plane. "
                     \o "It must be under 50 pounds and 22 inches x 14 inches x 9 inches.")
    ELSE IF In(<<"s", "e", "a", "t", "s">>, q) \/ In(<<"p", "l", "a", "n", "e">>, q)
    THEN Returned(c, "There are 120 seats on the plane. "
                     \o "There are 22 business class seats and 98 economy seats. "
                     \o "Exit rows are rows 4 and 16. "
                     \o "Rows 5-8 are Economy Plus, with extra legroom.")
    ELSE IF In(<<"w", "i", "f", "i">>, q)
    THEN Returned(c, "We have free wifi on the plane, join Airline-Wifi")
    ELSE Returned(c, "I'm sorry, I don't know the answer to that question.")

\* variant: the seat is stored in the confirmation field and the confirmation
\* number in the seat field
update_seat_FieldsSwapped(c, confirmation_number, new_seat) ==
    LET c1 == [c EXCEPT !.confirmation_number = Some(new_seat)]
        c2 == [c1 EXCEPT !.seat_number = Some(confirmation_number)]
    IN  IF c2.flight_number # None
        THEN Returned(c2, "Updated seat to " \o new_seat
                          \o " for confirmation number " \o confirmation_number)
        ELSE Raised(c2, "Flight number is required")

update_seat(c, confirmation_number, new_seat) ==
    LET c1 == [c EXCEPT !.confirmation_number = Some(confirmation_number)]
        c2 == [c1 EXCEPT !.seat_number = Some(new_seat)]
    IN  IF c2.flight_number # None
        THEN Returned(c2, "Updated seat to " \o new_seat
                          \o " for confirmation number " \o confirmation_number)
        ELSE Raised(c2, "Flight number is required")

\* variant: the tool records the flight it was asked about in the context
flight_status_tool_StoresFlight(c, flight_number) ==
    Returned([c EXCEPT !.flight_number = Some(flight_number)],
             "Flight " \o flight_number
                \o " is on time and scheduled to depart at gate A10.")

flight_status_tool(c, flight_number) ==
    Returned(c, "Flight " \o flight_number
                \o " is on time and scheduled to depart at gate A10.")

Queries == {<<"F", "e", "e", "?">>, <<"a", "l", "l", "o", "w", "a", "n", "c", "e">>, <<"h", "i">>}

baggage_tool(c, query) ==
    LET q == lower(query) IN
    IF In(<<"f", "e", "e">>, q)
    THEN Returned(c, "Overweight bag fee is $75.")
    ELSE IF In(<<"a", "l", "l", "o", "w", "a", "n", "c", "e">>, q)
    THEN Returned(c, "One carry-on and one checked bag (up to 50 lbs) are included.")
    ELSE Returned(c, "Please provide details about your baggage inquiry.")

display_seat_map(c) == Returned(c, "DISPLAY_SEAT_MAP")

\* variant: the cancelled flight is removed from the context
cancel_flight_ClearsFlight(c) ==
    LET fn == c.flight_number IN
    IF fn # None
    THEN Returned([c EXCEPT !.flight_number = None],
                  "Flight " \o fn[1] \o " successfully cancelled")
    ELSE Raised(c, "Flight number is required")

cancel_flight(c) ==
    LET fn == c.flight_number IN
    IF fn # None
    THEN Returned(c, "Flight " \o fn[1] \o " successfully cancelled")
    ELSE Raised(c, "Flight number is required")

\* the calls the model can ask for: tool name and arguments
ToolCalls ==
    {<<"faq_lookup_tool", q>> : q \in Questions}
    \cup {<<"update_seat", cn, s>> : cn \in ConfirmationArgs, s \in SeatArgs}
    \cup {<<"flight_status_tool", f>> : f \in FlightArgs}
    \cup {<<"baggage_tool", q>> : q \in Queries}
    \cup {<<"display_seat_map">>, <<"cancel_flight">>}

RunTool(c, call) ==
    CASE call[1] = "faq_lookup_tool" -> faq_lookup_tool(c, call[2])
      [] call[1] = "update_seat" -> update_seat(c, call[2], call[3])
      [] call[1] = "flight_status_tool" -> flight_status_tool(c, call[2])
      [] call[1] = "baggage_tool" -> baggage_tool(c, call[2])
      [] call[1] = "display_seat_map" -> display_seat_map(c)
      [] call[1] = "cancel_flight" -> cancel_flight(c)

(***************************************************************************)
(* HOOKS: the set of contexts a hook can leave behind                      *)
(***************************************************************************)
on_seat_booking_handoff(c) ==
    {[c EXCEPT !.flight_number = Some("FLT-" \o Str(n)),
               !.confirmation_number = Some(code)] :
        n \in RandInt(FlightLow, FlightHigh), code \in RandomCode}

\* variant: the hook fills in the confirmation number only
on_cancellation_handoff_ConfirmationOnly(c) ==
    LET confs == IF c.confirmation_number = None
                 THEN {Some(code) : code \in RandomCode}
                 ELSE {c.confirmation_number}
    IN  {[c EXCEPT !.confirmation_number = cn] : cn \in confs}

on_cancellation_handoff(c) ==
    LET confs == IF c.confirmation_number = None
                 THEN {Some(code) : code \in RandomCode}
                 ELSE {c.confirmation_number}
        flights == IF c.flight_number = None
                   THEN {Some("FLT-" \o Str(n)) : n \in RandInt(FlightLow, FlightHigh)}
                   ELSE {c.flight_number}
    IN  {[c EXCEPT !.confirmation_number = cn, !.flight_number = fl] :
            cn \in confs, fl \in flights}

(***************************************************************************)
(* GUARDRAILS                                                              *)
(***************************************************************************)
\* what the two guardrail models answer for a user turn
Verdicts == [is_relevant : BOOLEAN, is_safe : BOOLEAN]

\* guardrail_agent and jailbreak_guardrail_agent have no tools and no handoffs:
\* Runner.run on them returns a final output and leaves the context it is given
\* variant: the guardrail run records its subject in the shared context
guardrail_agent_WritesContext(c, m) ==
    [ctx |-> [c EXCEPT !.passenger_name = Some("guardrail")], final |-> m.is_relevant]

guardrail_agent(c, m) == [ctx |-> c, final |-> m.is_relevant]

jailbreak_guardrail_agent(c, m) == [ctx |-> c, final |-> m.is_safe]

\* variant: the tripwire is is_relevant instead of its negation
relevance_guardrail_NotDropped(c, m) ==
    LET result == guardrail_agent(c, m) IN
    [ctx |-> result.ctx, tripwire_triggered |-> result.final]

relevance_guardrail(c, m) ==
    LET result == guardrail_agent(c, m) IN
    [ctx |-> result.ctx, tripwire_triggered |-> ~result.final]

jailbreak_guardrail(c, m) ==
    LET result == jailbreak_guardrail_agent(c, m) IN
    [ctx |-> result.ctx, tripwire_triggered |-> ~result.final]

Guardrails == {"Relevance Guardrail", "Jailbreak Guardrail"}

RunGuardrail(g, c, m) ==
    CASE g = "Relevance Guardrail" -> relevance_guardrail(c, m)
      [] g = "Jailbreak Guardrail" -> jailbreak_guardrail(c, m)

(***************************************************************************)
(* AGENTS                                                                  *)
(***************************************************************************)
Handlers == {"triage", "seat_booking", "flight_status", "cancellation", "faq"}

seat_booking_instructions(c) ==
    LET confirmation == OrUnknown(c.confirmation_number) IN
    "You are a seat booking agent. 1. The customer's confirmation number is "
        \o confirmation \o "."

flight_status_instructions(c) ==
    LET confirmation == OrUnknown(c.confirmation_number)
        flight == OrUnknown(c.flight_number)
    IN  "You are a Flight Status Agent. 1. The customer's confirmation number is "
            \o confirmation \o " and flight number is " \o flight \o "."

cancellation_instructions(c) ==
    LET confirmation == OrUnknown(c.confirmation_number)
        flight == OrUnknown(c.flight_number)
    IN  "You are a Cancellation Agent. 1. The customer's confirmation number is "
            \o confirmation \o " and flight number is " \o flight \o "."

faq_instructions == "You are an FAQ agent."

triage_instructions == "You are a helpful triaging agent."

\* variant: the dynamic instructions are evaluated once, on an empty context
Instructions_Static(h, c) ==
    CASE h = "seat_booking" -> seat_booking_instructions(AirlineAgentContext)
      [] h = "flight_status" -> flight_status_instructions(AirlineAgentContext)
      [] h = "cancellation" -> cancellation_instructions(AirlineAgentContext)
      [] h = "faq" -> faq_instructions
      [] h = "triage" -> triage_instructions

\* instructions=... of each agent
Instructions(h, c) ==
    CASE h = "seat_booking" -> seat_booking_instructions(c)
      [] h = "flight_status" -> flight_status_instructions(c)
      [] h = "cancellation" -> cancellation_instructions(c)
      [] h = "faq" -> faq_instructions
      [] h = "triage" -> triage_instructions

\* variant: triage_agent is also given the update_seat tool
Tools_TriageUpdatesSeat(h) ==
    CASE h = "seat_booking" -> {"update_seat", "display_seat_map"}
      [] h = "flight_status" -> {"flight_status_tool"}
      [] h = "cancellation" -> {"cancel_flight"}
      [] h = "faq" -> {"faq_lookup_tool"}
      [] h = "triage" -> {"update_seat"}

\* tools=[...] of each agent
Tools(h) ==
    CASE h = "seat_booking" -> {"update_seat", "display_seat_map"}
      [] h = "flight_status" -> {"flight_status_tool"}
      [] h = "cancellation" -> {"cancel_flight"}
      [] h = "faq" -> {"faq_lookup_tool"}
      [] h = "triage" -> {}

\* variant: seat_booking_agent lists the relevance guardrail only
InputGuardrails_SeatBookingRelevanceOnly(h) ==
    IF h = "seat_booking" THEN {"Relevance Guardrail"}
    ELSE {"Relevance Guardrail", "Jailbreak Guardrail"}

\* variant: triage_agent is declared without input_guardrails
InputGuardrails_TriageUnguarded(h) ==
    IF h = "triage" THEN {} ELSE {"Relevance Guardrail", "Jailbreak Guardrail"}

\* input_guardrails=[...] of each agent
InputGuardrails(h) ==
    CASE h = "seat_booking" -> {"Relevance Guardrail", "Jailbreak Guardrail"}
      [] h = "flight_status" -> {"Relevance Guardrail", "Jailbreak Guardrail"}
      [] h = "cancellation" -> {"Relevance Guardrail", "Jailbreak Guardrail"}
      [] h = "faq" -> {"Relevance Guardrail", "Jailbreak Guardrail"}
      [] h = "triage" -> {"Relevance Guardrail", "Jailbreak Guardrail"}

\* variant: cancellation_agent.handoffs.append(triage_agent) is missing
Handoffs_CancellationDeadEnd(h) ==
    CASE h = "triage" -> {"flight_status", "cancellation", "faq", "seat_booking"}
      [] h = "faq" -> {"triage"}
      [] h = "seat_booking" -> {"triage"}
      [] h = "flight_status" -> {"triage"}
      [] h = "cancellation" -> {}

\* variant: faq_agent is also given a handoff to seat_booking_agent
Handoffs_FaqToSeatBooking(h) ==
    CASE h = "triage" -> {"flight_status", "cancellation", "faq", "seat_booking"}
      [] h = "faq" -> {"triage", "seat_booking"}
      [] h = "seat_booking" -> {"triage"}
      [] h = "flight_status" -> {"triage"}
      [] h = "cancellation" -> {"triage"}

\* handoffs=[...] of each agent, with the appends that follow triage_agent
Handoffs(h) ==
    CASE h = "triage" -> {"flight_status", "cancellation", "faq", "seat_booking"}
      [] h = "faq" -> {"triage"}
      [] h = "seat_booking" -> {"triage"}
      [] h = "flight_status" -> {"triage"}
      [] h = "cancellation" -> {"triage"}

\* variant: seat_booking_agent.handoffs gets triage_agent wrapped with the
\* seat booking hook
OnHandoff_ReturnHooked(h, target) ==
    IF h = "triage" /\ target = "cancellation" THEN "on_cancellation_handoff"
    ELSE IF h = "triage" /\ target = "seat_booking" THEN "on_seat_booking_handoff"
    ELSE IF h = "seat_booking" /\ target = "triage" THEN "on_seat_booking_handoff"
    ELSE "none"

\* variant: seat_booking_agent is listed without its on_handoff
OnHandoff_SeatBookingUnhooked(h, target) ==
    IF h = "triage" /\ target = "cancellation" THEN "on_cancellation_handoff"
    ELSE "none"

\* handoff(agent=..., on_handoff=...): the hook bound to an edge
OnHandoff(h, target) ==
    IF h = "triage" /\ target = "cancellation" THEN "on_cancellation_handoff"
    ELSE IF h = "triage" /\ target = "seat_booking" THEN "on_seat_booking_handoff"
    ELSE "none"

RunHook(hook, c) ==
    CASE hook = "on_cancellation_handoff" -> on_cancellation_handoff(c)
      [] hook = "on_seat_booking_handoff" -> on_seat_booking_handoff(c)
      [] hook = "none" -> {c}

\* the agent the /chat endpoint runs: no tools, no handoffs, no guardrails
gabi == "gabi"

(***************************************************************************)
(* DISPATCH LOOP (design document, section 4.4)                            *)
(***************************************************************************)
Terminal == {"Blocked", "Done", "Error"}

Running == [g \in Guardrails |-> "running"]

\* the edges of the routing graph
Edges == {e \in Handlers \X Handlers : e[2] \in Handoffs(e[1])}

Zero == [e \in Edges |-> 0]

Fresh(c) ==
    /\ activeHandler = "triage"
    /\ ctx = c
    /\ pc = "Idle"
    /\ msg \in Verdicts
    /\ checkers = Running
    /\ gate = "pending"
    /\ pending = <<>>
    /\ rendered = ""
    /\ output = ""
    /\ error = "none"
    /\ turnHandler = activeHandler
    /\ turnCtx = ctx
    /\ preCtx = ctx
    /\ turns = 1
    /\ steps = 0
    /\ toolRuns = 0
    /\ hookRuns = 0
    /\ hookCount = Zero
    /\ traversals = Zero
    /\ servedBy = "none"

\* a fresh session: a freshly created context, triage active, the first user
\* turn received and its checkers launched
Init == \E c \in create_initial_context : Fresh(c)

\* a checker of the active handler returns its verdict
CheckerCompletes(g) ==
    /\ pc = "Idle"
    /\ g \in InputGuardrails(activeHandler)
    /\ checkers[g] = "running"
    /\ LET r == RunGuardrail(g, ctx, msg) IN
        /\ ctx' = r.ctx
        /\ checkers' = [checkers EXCEPT
                            ![g] = IF r.tripwire_triggered THEN "trip" ELSE "pass"]
    /\ UNCHANGED <<activeHandler, pc, msg, gate, pending, rendered, output, error,
                   turnHandler, turnCtx, preCtx, turns, steps, toolRuns, hookRuns,
                   hookCount, traversals, servedBy>>

\* variant: a trip sends the session back to the entry handler
GateBlock_ResetsRouting ==
    /\ pc = "Idle"
    /\ \E g \in InputGuardrails(activeHandler) : checkers[g] = "trip"
    /\ gate' = "Block"
    /\ pc' = "Blocked"
    /\ error' = "GateTrip"
    /\ activeHandler' = "triage"
    /\ checkers' = [g \in Guardrails |->
                        IF checkers[g] = "running" THEN "abandoned" ELSE checkers[g]]
    /\ UNCHANGED <<ctx, msg, pending, rendered, output, turnHandler,
                   turnCtx, preCtx, turns, steps, toolRuns, hookRuns, hookCount,
                   traversals, servedBy>>

\* Idle(h) --gate block--> Blocked: as soon as any checker reports trip;
\* the checkers still outstanding are abandoned
GateBlock ==
    /\ pc = "Idle"
    /\ \E g \in InputGuardrails(activeHandler) : checkers[g] = "trip"
    /\ gate' = "Block"
    /\ pc' = "Blocked"
    /\ error' = "GateTrip"
    /\ checkers' = [g \in Guardrails |->
                        IF checkers[g] = "running" THEN "abandoned" ELSE checkers[g]]
    /\ UNCHANGED <<activeHandler, ctx, msg, pending, rendered, output, turnHandler,
                   turnCtx, preCtx, turns, steps, toolRuns, hookRuns, hookCount,
                   traversals, servedBy>>

\* Idle(h) --gate allow--> AwaitingModel(h): all checkers report pass
GateAllow ==
    /\ pc = "Idle"
    /\ \A g \in InputGuardrails(activeHandler) : checkers[g] = "pass"
    /\ gate' = "Allow"
    /\ pc' = "AwaitingModel"
    /\ rendered' = Instructions(activeHandler, ctx)
    /\ steps' = 1
    /\ UNCHANGED <<activeHandler, ctx, msg, checkers, pending, output, error,
                   turnHandler, turnCtx, preCtx, turns, toolRuns, hookRuns,
                   hookCount, traversals, servedBy>>

\* AwaitingModel(h) --final text--> Done
ModelText ==
    /\ pc = "AwaitingModel"
    /\ pc' = "Done"
    /\ UNCHANGED <<activeHandler, ctx, msg, checkers, gate, pending, rendered, output,
                   error, turnHandler, turnCtx, preCtx, turns, steps, toolRuns,
                   hookRuns, hookCount, traversals, servedBy>>

\* AwaitingModel(h) --tool call--> ExecutingTool(h, tool), or UnknownTool
ModelToolCall(call) ==
    /\ pc = "AwaitingModel"
    /\ steps < MaxSteps
    /\ IF call[1] \in Tools(activeHandler)
       THEN pc' = "ExecutingTool" /\ pending' = call /\ error' = error
       ELSE pc' = "Error" /\ pending' = pending /\ error' = "UnknownTool"
    /\ UNCHANGED <<activeHandler, ctx, msg, checkers, gate, rendered, output,
                   turnHandler, turnCtx, preCtx, turns, steps, toolRuns, hookRuns,
                   hookCount, traversals, servedBy>>

\* variant: a tool that raises sends the session back to the entry handler
ToolReturns_FailureResetsRouting ==
    /\ pc = "ExecutingTool"
    /\ LET r == RunTool(ctx, pending) IN
        /\ preCtx' = ctx
        /\ ctx' = r.ctx
        /\ output' = r.out
        /\ IF r.raised
           THEN /\ pc' = "Error"
                /\ error' = "PreconditionViolation"
                /\ activeHandler' = "triage"
                /\ UNCHANGED <<rendered, steps>>
           ELSE /\ pc' = "AwaitingModel"
                /\ error' = error
                /\ activeHandler' = activeHandler
                /\ rendered' = Instructions(activeHandler, r.ctx)
                /\ steps' = steps + 1
    /\ toolRuns' = toolRuns + 1
    /\ pending' = <<>>
    /\ UNCHANGED <<msg, checkers, gate, turnHandler, turnCtx, turns,
                   hookRuns, hookCount, traversals, servedBy>>

\* ExecutingTool(h, t) --tool returns text--> AwaitingModel(h); a tool that
\* raises ends the turn (PreconditionViolation) with the context as it left it
ToolReturns ==
    /\ pc = "ExecutingTool"
    /\ LET r == RunTool(ctx, pending) IN
        /\ preCtx' = ctx
        /\ ctx' = r.ctx
        /\ output' = r.out
        /\ IF r.raised
           THEN /\ pc' = "Error"
                /\ error' = "PreconditionViolation"
                /\ UNCHANGED <<rendered, steps>>
           ELSE /\ pc' = "AwaitingModel"
                /\ error' = error
                /\ rendered' = Instructions(activeHandler, r.ctx)
                /\ steps' = steps + 1
    /\ toolRuns' = toolRuns + 1
    /\ pending' = <<>>
    /\ UNCHANGED <<activeHandler, msg, checkers, gate, turnHandler, turnCtx, turns,
                   hookRuns, hookCount, traversals, servedBy>>

\* AwaitingModel(h) --handoff request to h'--> TransitioningHandoff(h, h') only
\* if the edge exists, else OffGraphHandoff
ModelHandoff(target) ==
    /\ pc = "AwaitingModel"
    /\ steps < MaxSteps
    /\ IF target \in Handoffs(activeHandler)
       THEN pc' = "TransitioningHandoff" /\ pending' = <<"handoff", target>>
            /\ error' = error
       ELSE pc' = "Error" /\ pending' = pending /\ error' = "OffGraphHandoff"
    /\ UNCHANGED <<activeHandler, ctx, msg, checkers, gate, rendered, output,
                   turnHandler, turnCtx, preCtx, turns, steps, toolRuns, hookRuns,
                   hookCount, traversals, servedBy>>

\* TransitioningHandoff(h, h') --hook (if bound) executes--> AwaitingModel(h'),
\* with the instructions of h' rendered from the post-hook context
HandoffTransition ==
    /\ pc = "TransitioningHandoff"
    /\ LET target == pending[2]
           edge == <<activeHandler, target>>
           hook == OnHandoff(activeHandler, target)
           n == IF hook = "none" THEN 0 ELSE 1
       IN  \E c \in RunHook(hook, ctx) :
            /\ preCtx' = ctx
            /\ ctx' = c
            /\ activeHandler' = target
            /\ rendered' = Instructions(target, c)
            /\ hookRuns' = hookRuns + n
            /\ hookCount' = [hookCount EXCEPT ![edge] = @ + n]
            /\ traversals' = [traversals EXCEPT ![edge] = @ + 1]
    /\ pc' = "AwaitingModel"
    /\ steps' = steps + 1
    /\ pending' = <<>>
    /\ UNCHANGED <<msg, checkers, gate, output, error, turnHandler, turnCtx, turns,
                   toolRuns, servedBy>>

\* the next user turn of the session: processed by the handler that was active
\* when the previous turn ended
NewTurn ==
    /\ pc \in Terminal
    /\ turns < MaxTurns
    /\ turns' = turns + 1
    /\ pc' = "Idle"
    /\ msg' \in Verdicts
    /\ checkers' = Running
    /\ gate' = "pending"
    /\ error' = "none"
    /\ turnHandler' = activeHandler
    /\ turnCtx' = ctx
    /\ steps' = 0
    /\ toolRuns' = 0
    /\ hookRuns' = 0
    /\ UNCHANGED <<activeHandler, ctx, pending, rendered, output, preCtx, hookCount,
                   traversals, servedBy>>

(***************************************************************************)
(* POST /chat: result = await gabi.run(user_message)                       *)
(***************************************************************************)
chat ==
    /\ servedBy' = gabi
    /\ UNCHANGED <<activeHandler, ctx, pc, msg, checkers, gate, pending, rendered,
                   output, error, turnHandler, turnCtx, preCtx, turns, steps,
                   toolRuns, hookRuns, hookCount, traversals>>

Next ==
    \/ \E g \in Guardrails : CheckerCompletes(g)
    \/ GateBlock
    \/ GateAllow
    \/ ModelText
    \/ \E call \in ToolCalls : ModelToolCall(call)
    \/ ToolReturns
    \/ \E target \in Handlers : ModelHandoff(target)
    \/ HandoffTransition
    \/ NewTurn
    \/ chat

Spec == Init /\ [][Next]_vars

(***************************************************************************)
(* The loop started on any agent with any context of the type: the tools   *)
(* and hooks are then applied to every context value, also those a fresh   *)
(* session routed from triage never produces.  The session is taken up at  *)
(* its last turn but one.                                                  *)
(***************************************************************************)
ContextValues ==
    {[c EXCEPT !.confirmation_number = cn, !.seat_number = s, !.flight_number = f] :
        c \in create_initial_context,
        cn \in {None, Some("ABC123")},
        s \in {None, Some("1A")},
        f \in {None, Some("FLT-100")}}

InitTools ==
    \E c \in ContextValues, h \in Handlers :
        /\ activeHandler = h
        /\ ctx = c
        /\ pc = "AwaitingModel"
        /\ msg = [is_relevant |-> TRUE, is_safe |-> TRUE]
        /\ checkers = [g \in Guardrails |-> "pass"]
        /\ gate = "Allow"
        /\ pending = <<>>
        /\ rendered = Instructions(h, c)
        /\ output = ""
        /\ error = "none"
        /\ turnHandler = h
        /\ turnCtx = c
        /\ preCtx = c
        /\ turns = MaxTurns - 1
        /\ steps = 1
        /\ toolRuns = 0
        /\ hookRuns = 0
        /\ hookCount = Zero
        /\ traversals = Zero
        /\ servedBy = "none"

SpecTools == InitTools /\ [][Next]_vars

(***************************************************************************)
(* Properties                                                              *)
(***************************************************************************)

\* C1: whenever a turn ends in Blocked, the active handler is the handler that
\* was active when the turn started.
C1_BlockedKeepsActiveHandler ==
    pc = "Blocked" => activeHandler = turnHandler

\* C1 witness: a later turn is blocked while a spoke handler is active.
C1_Witness ==
    pc = "Blocked" /\ turns > 1 /\ activeHandler = "cancellation"

\* C2: a tool or a handoff hook runs (or is about to run) in a turn only after
\* the gate of the handler active at the start of the turn returned Allow with
\* both of its checkers passing; the gate is evaluated on that handler; a
\* Blocked turn has run no tool and no hook.
C2_NothingRunsBeforeAllow ==
    /\ (toolRuns > 0 \/ hookRuns > 0 \/ pc \in {"ExecutingTool", "TransitioningHandoff"})
          => (gate = "Allow" /\ \A g \in Guardrails : checkers[g] = "pass")
    /\ pc = "Idle" => (activeHandler = turnHandler /\ toolRuns = 0 /\ hookRuns = 0)
    /\ pc = "Blocked" => (toolRuns = 0 /\ hookRuns = 0)

\* C2 witness: a hook and a tool have both run in a turn whose gate allowed.
C2_Witness ==
    gate = "Allow" /\ hookRuns > 0 /\ toolRuns > 0

\* C3: whenever a turn ends in Blocked, all five context fields have the
\* values they had when the turn started.
C3_BlockedKeepsContext ==
    pc = "Blocked" =>
        /\ ctx.passenger_name = turnCtx.passenger_name
        /\ ctx.confirmation_number = turnCtx.confirmation_number
        /\ ctx.seat_number = turnCtx.seat_number
        /\ ctx.flight_number = turnCtx.flight_number
        /\ ctx.account_number = turnCtx.account_number

\* C3 witness: a turn is blocked in a session whose context holds booking data.
C3_Witness ==
    pc = "Blocked" /\ ctx.flight_number # None /\ ctx.seat_number # None

\* C4: the gate returns Block iff a checker reports trip, i.e. iff the turn is
\* irrelevant or unsafe, and Allow iff both checkers pass, i.e. iff the turn
\* is relevant and safe, in whatever order the checkers complete.
C4_GateVerdict ==
    /\ gate = "Block" <=> (pc = "Blocked")
    /\ gate = "Block" =>
          /\ \E g \in Guardrails : checkers[g] = "trip"
          /\ ~msg.is_relevant \/ ~msg.is_safe
    /\ gate = "Allow" =>
          /\ \A g \in Guardrails : checkers[g] = "pass"
          /\ msg.is_relevant /\ msg.is_safe
    /\ checkers["Relevance Guardrail"] = "trip" => ~msg.is_relevant
    /\ checkers["Relevance Guardrail"] = "pass" => msg.is_relevant
    /\ checkers["Jailbreak Guardrail"] = "trip" => ~msg.is_safe
    /\ checkers["Jailbreak Guardrail"] = "pass" => msg.is_safe
    /\ (pc = "Idle" /\ \A g \in Guardrails : checkers[g] # "running")
          => (ENABLED GateBlock \/ ENABLED GateAllow)

\* C4 witness: the gate blocked on a trip while the other checker was still
\* outstanding.
C4_Witness ==
    gate = "Block" /\ \E g \in Guardrails : checkers[g] = "abandoned"

\* C5: for the two edges that have a hook, the number of executions of the
\* hook equals the number of traversals of the edge.
C5_HookOncePerTraversal ==
    /\ hookCount[<<"triage", "cancellation">>] = traversals[<<"triage", "cancellation">>]
    /\ hookCount[<<"triage", "seat_booking">>] = traversals[<<"triage", "seat_booking">>]

\* C5 witness: a hooked edge has been traversed twice.
C5_Witness ==
    traversals[<<"triage", "seat_booking">>] = 2

\* C6: whenever the model is awaited, the instructions rendered for the active
\* handler are those computed from the current context; right after a
\* handoff that is the post-hook context.
C6_InstructionsFromPostHookContext ==
    pc = "AwaitingModel" =>
        /\ activeHandler = "seat_booking" => rendered = seat_booking_instructions(ctx)
        /\ activeHandler = "cancellation" => rendered = cancellation_instructions(ctx)
        /\ activeHandler = "flight_status" => rendered = flight_status_instructions(ctx)

\* C6 witness: a hooked handoff has just completed and the instructions differ
\* from those the pre-hook context would give.
C6_Witness ==
    /\ pc = "AwaitingModel"
    /\ activeHandler = "cancellation"
    /\ hookRuns > 0
    /\ rendered # cancellation_instructions(preCtx)

\* C7: when a tool fails its precondition, the context after the failed step
\* equals the context before it.
C7_FailedStepLeavesContext ==
    (pc = "Error" /\ error = "PreconditionViolation") => ctx = preCtx

\* C8: once the confirmation number or the flight number is non-null, it is
\* non-null in the next state, whatever step is taken.
C8_NeverCleared ==
    [][/\ ctx.confirmation_number # None => ctx'.confirmation_number # None
       /\ ctx.flight_number # None => ctx'.flight_number # None]_vars

\* C8 witness: cancel_flight has returned and the flight number it cancelled
\* is still in the context.
C8_Witness ==
    /\ output = "Flight FLT-100 successfully cancelled"
    /\ ctx.flight_number = Some("FLT-100")
    /\ ctx.confirmation_number # None

\* C9: the active handler is one of the five graph handlers, and every request
\* accepted by the chat endpoint is processed by the active graph handler.
C9_ChatServedByActiveHandler ==
    /\ activeHandler \in {"triage", "seat_booking", "flight_status", "cancellation", "faq"}
    /\ servedBy # "none" => servedBy = activeHandler

GraphEdges ==
    {<<"triage", "flight_status">>, <<"triage", "cancellation">>, <<"triage", "faq">>,
     <<"triage", "seat_booking">>, <<"faq", "triage">>, <<"seat_booking", "triage">>,
     <<"flight_status", "triage">>, <<"cancellation", "triage">>}

\* C10: the active handler changes only along an edge of the routing graph; a
\* handoff request is accepted only for an outgoing edge; an off-graph request
\* ends the turn in Error without changing the active handler, the context or
\* any hook count; and an ended turn is only followed by a new user turn.
C10_OnlyGraphEdges ==
    [][/\ activeHandler' # activeHandler => <<activeHandler, activeHandler'>> \in GraphEdges
       /\ (pc = "AwaitingModel" /\ pc' = "TransitioningHandoff")
             => <<activeHandler, pending'[2]>> \in GraphEdges
       /\ (pc = "AwaitingModel" /\ error' = "OffGraphHandoff")
             => /\ pc' = "Error"
                /\ activeHandler' = activeHandler
                /\ ctx' = ctx
                /\ hookCount' = hookCount
                /\ hookRuns' = hookRuns
       /\ (pc = "Error" /\ pc' # pc) => (pc' = "Idle" /\ turns' = turns + 1)]_vars

\* C10 witness: a spoke handler asked for a handoff to another spoke.
C10_Witness ==
    pc = "Error" /\ error = "OffGraphHandoff" /\ activeHandler = "faq"

DeclaredTools ==
    [h \in {"triage", "seat_booking", "flight_status", "cancellation", "faq"} |->
        CASE h = "seat_booking" -> {"update_seat", "display_seat_map"}
          [] h = "flight_status" -> {"flight_status_tool"}
          [] h = "cancellation" -> {"cancel_flight"}
          [] h = "faq" -> {"faq_lookup_tool"}
          [] h = "triage" -> {}]

\* C11: a tool call is accepted, and a tool body run, only for a tool of the
\* declared tool set of the active handler; a request for any other tool ends
\* the turn with UnknownTool without running a tool body and without changing
\* the context.
C11_OnlyDeclaredTools ==
    [][/\ (pc = "AwaitingModel" /\ pc' = "ExecutingTool")
             => pending'[1] \in DeclaredTools[activeHandler]
       /\ toolRuns' > toolRuns => pending[1] \in DeclaredTools[activeHandler]
       /\ (pc = "AwaitingModel" /\ error' = "UnknownTool")
             => /\ pc' = "Error"
                /\ ctx' = ctx
                /\ toolRuns' = toolRuns
                /\ output' = output
                /\ activeHandler' = activeHandler]_vars

\* C11 witness: the FAQ handler asked for a tool outside its set and the turn
\* ended with UnknownTool, after a declared tool had run.
C11_Witness ==
    pc = "Error" /\ error = "UnknownTool" /\ activeHandler = "faq" /\ toolRuns > 0

\* the renderings of the cancellation instructions that show the placeholder
\* "[unknown]" for the confirmation number, for the flight number or for both
C12_PlaceholderRenderings ==
    {cancellation_instructions([ctx EXCEPT !.confirmation_number = None]),
     cancellation_instructions([ctx EXCEPT !.flight_number = None]),
     cancellation_instructions([ctx EXCEPT !.confirmation_number = None,
                                           !.flight_number = None])}

\* C12: whenever the cancellation handler's instructions are rendered, the
\* confirmation number and the flight number are non-null and the rendered
\* instructions do not contain the placeholder "[unknown]".
C12_NoPlaceholderAtCancellation ==
    (pc = "AwaitingModel" /\ activeHandler = "cancellation") =>
        /\ ctx.confirmation_number # None
        /\ ctx.flight_number # None
        /\ rendered \notin C12_PlaceholderRenderings

\* C13: when update_seat(c, s) runs while the flight number is non-null, the
\* text returned is "Updated seat to s for confirmation number c", the turn
\* goes on, and afterwards the seat number is s and the confirmation number
\* is c, with flight number, passenger name and account number unchanged.
C13_UpdateSeat ==
    [][(pc = "ExecutingTool" /\ pending[1] = "update_seat" /\ ctx.flight_number # None
        /\ toolRuns' > toolRuns)
          => /\ output' = "Updated seat to " \o pending[3]
                              \o " for confirmation number " \o pending[2]
             /\ pc' = "AwaitingModel"
             /\ ctx'.seat_number = Some(pending[3])
             /\ ctx'.confirmation_number = Some(pending[2])
             /\ ctx'.flight_number = ctx.flight_number
             /\ ctx'.passenger_name = ctx.passenger_name
             /\ ctx'.account_number = ctx.account_number]_vars

\* C13 witness: update_seat("ABC123", "23C") has returned, replacing the
\* confirmation number the hook had synthesized.
C13_Witness ==
    /\ output = "Updated seat to 23C for confirmation number ABC123"
    /\ ctx.seat_number = Some("23C")
    /\ ctx.confirmation_number = Some("ABC123")
    /\ preCtx.confirmation_number \in {Some("AAAAAA"), Some("Z9Z9Z9")}
    /\ ctx.flight_number = preCtx.flight_number

\* C14: the gate is decided once per user turn: it is decided at the start of
\* the turn, before any model invocation, tool or hook, for the handler active
\* at that moment and from its two checkers; once decided, neither the gate
\* result nor a checker changes until the next user turn, so the model
\* invocations that follow a tool result or a handoff run no gate; and the
\* model is never invoked in a turn whose gate has not allowed.
C14_GateOncePerTurn ==
    /\ [](pc \in {"AwaitingModel", "ExecutingTool", "TransitioningHandoff", "Done"}
             => gate = "Allow")
    /\ [][/\ (gate = "pending" /\ gate' # "pending")
                => /\ pc = "Idle" /\ steps = 0 /\ toolRuns = 0 /\ hookRuns = 0
                   /\ activeHandler = turnHandler
                   /\ gate' = "Allow" =>
                          \A g \in {"Relevance Guardrail", "Jailbreak Guardrail"} :
                              checkers[g] = "pass"
                   /\ gate' = "Block" =>
                          \E g \in {"Relevance Guardrail", "Jailbreak Guardrail"} :
                              checkers[g] = "trip"
          /\ (gate # "pending" /\ turns' = turns)
                => (gate' = gate /\ checkers' = checkers /\ pc' # "Idle")
          /\ (pc # "Idle" /\ pc' = "Idle") => turns' = turns + 1]_vars

\* C14 witness: in a later turn, started with seat booking active, the model
\* has been re-invoked after a tool result and after a handoff, on the one
\* gate decision of the turn.
C14_Witness ==
    /\ turns > 1
    /\ turnHandler = "seat_booking"
    /\ activeHandler = "triage"
    /\ pc = "AwaitingModel"
    /\ toolRuns > 0
    /\ steps = 3
    /\ gate = "Allow"

\* C15: each of the four non-entry handlers has an outgoing edge to triage,
\* and whenever a handler other than triage is active a handoff to triage is
\* among its permitted handoffs: a request for it is accepted.
C15_EveryHandlerReturnsToTriage ==
    /\ \A h \in {"seat_booking", "flight_status", "cancellation", "faq"} :
           "triage" \in Handoffs(h)
    /\ activeHandler # "triage" => <<activeHandler, "triage">> \in Edges
    /\ (activeHandler # "triage" /\ pc = "AwaitingModel" /\ steps < MaxSteps)
          => ENABLED (ModelHandoff("triage") /\ pc' = "TransitioningHandoff")

\* C15 witness: the cancellation handler, whose edge to triage is appended
\* last, has handed back to triage.
C15_Witness ==
    /\ traversals[<<"cancellation", "triage">>] > 0
    /\ activeHandler = "triage"
    /\ pc = "AwaitingModel"

\* C16: the step that runs a tool body, whether the tool returns or raises,
\* leaves the active handler unchanged.
C16_ToolsKeepActiveHandler ==
    [][(pc = "ExecutingTool" \/ toolRuns' > toolRuns)
          => activeHandler' = activeHandler]_vars

\* C16 witness: cancel_flight raised while the cancellation handler was
\* active, and the cancellation handler is still the active one.
C16_Witness ==
    /\ pc = "Error"
    /\ error = "PreconditionViolation"
    /\ output = "Flight number is required"
    /\ activeHandler = "cancellation"
    /\ toolRuns > 0

\* C17: the context of a fresh session has every field but the account number
\* unset; the account number is a string of 8 digits, which for str(n) is
\* n in 10000000..99999999; and no step of the session changes it.
C17_AccountNumber ==
    /\ ctx.passenger_name = None
    /\ ctx.confirmation_number = None
    /\ ctx.seat_number = None
    /\ ctx.flight_number = None
    /\ [](ctx.account_number # None /\ Len(ctx.account_number[1]) = 8)
    /\ [][ctx'.account_number = ctx.account_number]_vars

\* C17 witness: hooks and update_seat have written the other fields in two
\* turns and the account number is the one drawn at the upper end of the range.
C17_Witness ==
    /\ turns > 1
    /\ ctx.seat_number # None
    /\ ctx.flight_number # None
    /\ ctx.confirmation_number # None
    /\ ctx.account_number = Some("99999999")

\* the question of the faq_lookup_tool call being executed contains the word,
\* whatever its case
C18_Asks(word) ==
    /\ pc = "ExecutingTool"
    /\ pending[1] = "faq_lookup_tool"
    /\ In(word, lower(pending[2]))

\* C18 (as claimed): faq_lookup_tool returns the wifi answer for every
\* question that contains "wifi", whatever its case.
C18_WifiAnswerForEveryWifiQuestion ==
    [][(C18_Asks(<<"w", "i", "f", "i">>) /\ toolRuns' > toolRuns)
          => output' = "We have free wifi on the plane, join Airline-Wifi"]_vars

\* C18 (amended): faq_lookup_tool returns the wifi answer for every question
\* that contains "wifi", whatever its case, and contains none of "bag",
\* "seats" and "plane", which the tool tests first.
C18_WifiAnswerUnlessEarlierKeyword ==
    [][(/\ C18_Asks(<<"w", "i", "f", "i">>)
        /\ ~C18_Asks(<<"b", "a", "g">>)
        /\ ~C18_Asks(<<"s", "e", "a", "t", "s">>)
        /\ ~C18_Asks(<<"p", "l", "a", "n", "e">>)
        /\ toolRuns' > toolRuns)
          => /\ output' = "We have free wifi on the plane, join Airline-Wifi"
             /\ pc' = "AwaitingModel"
             /\ ctx' = ctx]_vars

\* C18 witness: in the first turn of a session the FAQ handler, reached from
\* triage, has the wifi answer from its tool.
C18_Witness ==
    /\ turns = 1
    /\ activeHandler = "faq"
    /\ pc = "AwaitingModel"
    /\ toolRuns = 1
    /\ output = "We have free wifi on the plane, join Airline-Wifi"

\* C19: traversing a hooked edge (triage -> seat booking, triage ->
\* cancellation) leaves a flight number and a confirmation number that the
\* context already holds unchanged: the hook writes only a field that is unset.
C19_HooksKeepExistingValues ==
    [][(/\ pc = "TransitioningHandoff"
        /\ activeHandler = "triage"
        /\ pending[2] \in {"seat_booking", "cancellation"}
        /\ activeHandler' = pending[2])
          => /\ ctx.flight_number # None => ctx'.flight_number = ctx.flight_number
             /\ ctx.confirmation_number # None
                   => ctx'.confirmation_number = ctx.confirmation_number]_vars

\* C20: in a session that starts fresh at triage, whenever seat booking or
\* cancellation is the active handler the flight number is non-null, and no
\* turn ends with PreconditionViolation.
C20_FlightNumberSetAtSpokes ==
    /\ activeHandler \in {"seat_booking", "cancellation"} => ctx.flight_number # None
    /\ error # "PreconditionViolation"
    /\ (pc = "ExecutingTool" /\ pending[1] \in {"update_seat", "cancel_flight"})
          => ~RunTool(ctx, pending).raised

\* C20 witness: in a session that entered cancellation with no prior booking
\* data, cancel_flight has run and returned.
C20_Witness ==
    /\ activeHandler = "cancellation"
    /\ pc = "AwaitingModel"
    /\ toolRuns > 0
    /\ ctx.seat_number = None
    /\ traversals[<<"triage", "seat_booking">>] = 0
    /\ output = "Flight FLT-999 successfully cancelled"

\* the contexts a tool can be handed, with and without a passenger name
C21_Contexts ==
    {[c EXCEPT !.passenger_name = p] :
        c \in ContextValues, p \in {None, Some("Ana")}}

\* C21: update_seat is the only tool that writes the context, and it writes
\* only the confirmation number and the seat number, whether it returns or
\* raises; faq_lookup_tool, flight_status_tool, baggage_tool, display_seat_map
\* and cancel_flight leave every field as it was (cancel_flight keeps the
\* flight number it cancels); no tool or hook writes the passenger name.  The
\* first conjunct states it of every tool as a function of its context, the
\* second of every step of the loop.
C21_OnlyUpdateSeatWrites ==
    /\ \A c \in C21_Contexts, call \in ToolCalls :
          LET r == RunTool(c, call).ctx IN
          IF call[1] = "update_seat"
          THEN /\ r.passenger_name = c.passenger_name
               /\ r.flight_number = c.flight_number
               /\ r.account_number = c.account_number
               /\ r.confirmation_number = Some(call[2])
               /\ r.seat_number = Some(call[3])
          ELSE r = c
    /\ \A c \in C21_Contexts :
          \A d \in on_seat_booking_handoff(c) \cup on_cancellation_handoff(c) :
              d.passenger_name = c.passenger_name
    /\ [][/\ ctx'.passenger_name = ctx.passenger_name
          /\ toolRuns' > toolRuns =>
                IF pending[1] = "update_seat"
                THEN /\ ctx'.flight_number = ctx.flight_number
                     /\ ctx'.account_number = ctx.account_number
                ELSE ctx' = ctx]_vars

\* C21 witness: cancel_flight has returned at cancellation on a context that
\* holds a flight number and a seat but no confirmation number, and the
\* context is the one the tool was given.
C21_Witness ==
    /\ activeHandler = "cancellation"
    /\ pc = "AwaitingModel"
    /\ toolRuns > 0
    /\ output = "Flight FLT-100 successfully cancelled"
    /\ ctx = preCtx
    /\ ctx.flight_number = Some("FLT-100")
    /\ ctx.seat_number = Some("1A")
    /\ ctx.confirmation_number = None

\* the two edges triage_agent.handoffs wraps with an on_handoff
C22_HookedEdges == {<<"triage", "cancellation">>, <<"triage", "seat_booking">>}

\* the edges listed as a bare agent
C22_BareEdges ==
    {<<"triage", "flight_status">>, <<"triage", "faq">>,
     <<"flight_status", "triage">>, <<"cancellation", "triage">>,
     <<"faq", "triage">>, <<"seat_booking", "triage">>}

\* C22: only triage -> cancellation and triage -> seat booking have a hook.
\* No hook ever runs on triage -> flight status, triage -> FAQ or any
\* spoke -> triage; a handoff along one of those edges runs no hook and leaves
\* the context as it was, so what was written earlier is still there back at
\* triage; a handoff along one of the two hooked edges runs one hook.
C22_OnlyTwoEdgesHooked ==
    /\ [](\A e \in C22_BareEdges : hookCount[e] = 0)
    /\ [][(pc = "TransitioningHandoff" /\ pc' = "AwaitingModel") =>
            /\ <<activeHandler, activeHandler'>> \in C22_HookedEdges \cup C22_BareEdges
            /\ <<activeHandler, activeHandler'>> \in C22_BareEdges =>
                  /\ ctx' = ctx
                  /\ hookRuns' = hookRuns
                  /\ hookCount' = hookCount
            /\ <<activeHandler, activeHandler'>> \in C22_HookedEdges =>
                  hookRuns' = hookRuns + 1]_vars

\* C22 witness: the session is back at triage from seat booking; the flight
\* number and confirmation number the hook wrote and the seat update_seat
\* wrote are all still in the context, and the return ran no hook.
C22_Witness ==
    /\ activeHandler = "triage"
    /\ pc = "AwaitingModel"
    /\ traversals[<<"seat_booking", "triage">>] = 1
    /\ hookCount[<<"seat_booking", "triage">>] = 0
    /\ hookCount[<<"triage", "seat_booking">>] = 1
    /\ ctx = preCtx
    /\ ctx.seat_number = Some("23C")
    /\ ctx.confirmation_number = Some("ABC123")
    /\ ctx.flight_number # None

====
